---- MODULE Spec2Model ----
(***************************************************************************)
(* A model of the BLE advertising-data decoder of src/ble_parser.py:       *)
(* parse_next (the single-record reader) and the generator ad_structs      *)
(* (the stream driver), together with _Result.unwrap of                    *)
(* src/boxed/result.py, which turns a failed read into a raised exception. *)
(*                                                                         *)
(* Two decode sessions (two generators created by ad_structs(buffer)) run  *)
(* over the same caller-owned buffer and are advanced in any interleaving. *)
(***************************************************************************)
EXTENDS Integers, Sequences, FiniteSets, TLC

\* ---------------------------------------------------------------- bounds

\* Longest enumerated input buffer.
MaxLen == 4

\* Largest byte value of the enumerated buffers (bytes are 0 .. MaxByte).
MaxByte == 3

\* How many times a consumer calls next() again on a finished generator.
MaxExtra == 1

Sessions == {1, 2}

ByteVals == 0 .. MaxByte

RECURSIVE SeqsOfLen(_)
SeqsOfLen(n) ==
    IF n = 0 THEN {<<>>}
    ELSE {Append(q, b) : q \in SeqsOfLen(n - 1), b \in ByteVals}

\* The buffers named by the specification's examples and by ble_parser's
\* __main__ block, decoded besides the enumerated ones.
Examples ==
    { <<2, 1, 6, 6, 255, 1, 2, 3, 4, 5>>,
      <<2, 1, 6>>,
      <<5, 1, 2>>,
      <<0, 1>>,
      <<1>> }

Buffers == UNION {SeqsOfLen(n) : n \in 0 .. MaxLen} \cup Examples

\* ---------------------------------------------------------------- values

Min(a, b) == IF a < b THEN a ELSE b

\* AdStruct(data_type, data): the frozen dataclass.
AdStruct(t, d) == [data_type |-> t, data |-> d]

\* Ok(value) and Err(value) of boxed.result.
Ok(v) == [tag |-> "Ok", value |-> v]

Err(e) == [tag |-> "Err", value |-> e]

\* No reader result yet (the local is unbound before the first call).
NoResult == [tag |-> "None", value |-> <<>>]

\* No exception has reached the consumer.
NoError == <<>>

\* UnwrapError(msg) of boxed.error, as raised by unwrap.
UnwrapError(msg) == <<"UnwrapError", msg>>

\* d[:l] on a Python list: at most l items, clamped to the list's length.
Take(d, l) == SubSeq(d, 1, Min(l, Len(d)))

\* Drop with the slice started one item late (`d[l + 1:]`).
DropLate(d, l) == SubSeq(d, Min(l, Len(d)) + 2, Len(d))

\* d[l:] on a Python list: what is left after the first l items, clamped.
Drop(d, l) == SubSeq(d, Min(l, Len(d)) + 1, Len(d))

\* ---------------------------------------------------------------- state

VARIABLES
    buffer,     \* the caller's bytes, the argument of both ad_structs calls
    cur,        \* per session: `data` of the innermost ad_structs frame
    status,     \* per session: where the generator stands
    yielded,    \* per session: the AdStructs the consumer has received
    lens,       \* per session: the length byte `l` bound for each of them
    arg,        \* per session: the argument of the last parse_next call
    res,        \* per session: what the last parse_next call returned
    reads,      \* per session: how many parse_next calls were made
    error,      \* per session: the exception the consumer has received
    extra       \* per session: next() calls made on the finished generator

vars == <<buffer, cur, status, yielded, lens, arg, res, reads, error, extra>>

\* ------------------------------------------------------- the record reader

\* parse_next indexing data[0] and data[1] without the length check of the
\* pattern: IndexError on a buffer of fewer than 2 bytes.
parse_next_index(data) ==
    IF Len(data) >= 2
    THEN Ok(<<AdStruct(data[2], Take(SubSeq(data, 3, Len(data)), data[1])),
              Drop(SubSeq(data, 3, Len(data)), data[1])>>)
    ELSE [tag |-> "Raise", value |-> "IndexError"]

\* parse_next tagging its records from a module-level counter of the records
\* handed out so far, instead of from the type byte.
parse_next_counter(data) ==
    IF Len(data) >= 2
    THEN Ok(<<AdStruct(Len(yielded[1]) + Len(yielded[2]),
                       Take(SubSeq(data, 3, Len(data)), data[1])),
              Drop(SubSeq(data, 3, Len(data)), data[1])>>)
    ELSE Err("Invalid data format.")

\* parse_next treating l = 0 as one byte of padding: the type byte stays in
\* the remainder.
parse_next_pad(data) ==
    IF Len(data) >= 2
    THEN IF data[1] = 0
         THEN Ok(<<AdStruct(data[2], <<>>), Tail(data)>>)
         ELSE Ok(<<AdStruct(data[2], Take(SubSeq(data, 3, Len(data)), data[1])),
                   Drop(SubSeq(data, 3, Len(data)), data[1])>>)
    ELSE Err("Invalid data format.")

\* parse_next: `match list(data)`, case [l, t, *d] -> Ok, case _ -> Err.
parse_next(data) ==
    IF Len(data) >= 2
    THEN LET l == data[1]
             t == data[2]
             d == SubSeq(data, 3, Len(data))
         IN  Ok(<<AdStruct(t, Take(d, l)), Drop(d, l)>>)
    ELSE Err("Invalid data format.")

\* _Result.unwrap: the value of an Ok, UnwrapError(msg) raised on an Err.
unwrap(r) ==
    IF r.tag = "Ok"
    THEN [raised |-> FALSE, value |-> r.value, exc |-> NoError]
    ELSE [raised |-> TRUE, value |-> <<>>, exc |-> UnwrapError(r.value)]

\* ------------------------------------------------------- the stream driver

\* Two generators are created over one buffer; none has run yet.
Init ==
    /\ buffer \in Buffers
    /\ cur = [s \in Sessions |-> buffer]
    /\ status = [s \in Sessions |-> "Start"]
    /\ yielded = [s \in Sessions |-> <<>>]
    /\ lens = [s \in Sessions |-> <<>>]
    /\ arg = [s \in Sessions |-> <<>>]
    /\ res = [s \in Sessions |-> NoResult]
    /\ reads = [s \in Sessions |-> 0]
    /\ error = [s \in Sessions |-> NoError]
    /\ extra = [s \in Sessions |-> 0]

\* The generator is at the head of an ad_structs frame: freshly created, or
\* resumed after `yield ad` and entering the frame of `yield from
\* ad_structs(rest)`.
AtMatch(s) == status[s] \in {"Start", "Yielding"}

\* ad_structs, `case b"": return`: the sequence ends, no reader call.
MatchEmpty(s) ==
    /\ AtMatch(s)
    /\ cur[s] = <<>>
    /\ status' = [status EXCEPT ![s] = "Empty"]
    /\ UNCHANGED <<buffer, cur, yielded, lens, arg, res, reads, error, extra>>

\* MatchOther without the `case b""` arm before it: every frame reads.
MatchAny(s) ==
    /\ status[s] \in {"Start", "Yielding"}
    /\ status' = [status EXCEPT ![s] = "Reading"]
    /\ UNCHANGED <<buffer, cur, yielded, lens, arg, res, reads, error, extra>>

\* ad_structs, `case _:` the frame goes on to call parse_next(data).
MatchOther(s) ==
    /\ AtMatch(s)
    /\ cur[s] # <<>>
    /\ status' = [status EXCEPT ![s] = "Reading"]
    /\ UNCHANGED <<buffer, cur, yielded, lens, arg, res, reads, error, extra>>

\* `ad, rest = parse_next(data).unwrap()` returned: `yield ad`, and the
\* next frame will run on rest.
ReadOk(s) ==
    /\ status[s] = "Reading"
    /\ LET r == parse_next(cur[s])
           u == unwrap(r)
       IN  /\ ~u.raised
           /\ yielded' = [yielded EXCEPT ![s] = Append(@, u.value[1])]
           /\ lens' = [lens EXCEPT ![s] = Append(@, cur[s][1])]
           /\ cur' = [cur EXCEPT ![s] = u.value[2]]
           /\ res' = [res EXCEPT ![s] = r]
    /\ arg' = [arg EXCEPT ![s] = cur[s]]
    /\ reads' = [reads EXCEPT ![s] = @ + 1]
    /\ status' = [status EXCEPT ![s] = "Yielding"]
    /\ UNCHANGED <<buffer, error, extra>>

\* ReadErr with the failure swallowed (unwrap_or style): one byte is skipped
\* and the driver goes on with what follows.
ReadErrResync(s) ==
    /\ status[s] = "Reading"
    /\ parse_next(cur[s]).tag # "Ok"
    /\ res' = [res EXCEPT ![s] = parse_next(cur[s])]
    /\ arg' = [arg EXCEPT ![s] = cur[s]]
    /\ reads' = [reads EXCEPT ![s] = @ + 1]
    /\ cur' = [cur EXCEPT ![s] = Tail(@)]
    /\ status' = [status EXCEPT ![s] = "Yielding"]
    /\ UNCHANGED <<buffer, yielded, lens, error, extra>>

\* `parse_next(data).unwrap()` raised: the exception leaves every frame of
\* the generator and reaches the consumer; nothing is yielded.
ReadErr(s) ==
    /\ status[s] = "Reading"
    /\ LET r == parse_next(cur[s])
           u == unwrap(r)
       IN  /\ u.raised
           /\ error' = [error EXCEPT ![s] = u.exc]
           /\ res' = [res EXCEPT ![s] = r]
    /\ arg' = [arg EXCEPT ![s] = cur[s]]
    /\ reads' = [reads EXCEPT ![s] = @ + 1]
    /\ status' = [status EXCEPT ![s] = "Failed"]
    /\ UNCHANGED <<buffer, cur, yielded, lens, extra>>

\* next() on a generator that returned or raised: StopIteration, and the
\* body of ad_structs does not run again.
Exhausted(s) ==
    /\ status[s] \in {"Empty", "Failed"}
    /\ extra[s] < MaxExtra
    /\ extra' = [extra EXCEPT ![s] = @ + 1]
    /\ UNCHANGED <<buffer, cur, status, yielded, lens, arg, res, reads, error>>

Next ==
    \E s \in Sessions :
        \/ MatchEmpty(s)
        \/ MatchOther(s)
        \/ ReadOk(s)
        \/ ReadErr(s)
        \/ Exhausted(s)

Spec == Init /\ [][Next]_vars

\* A consumer that iterates (`for ad in ad_structs(data)`) keeps calling
\* next() until the generator returns or raises.
Advance(s) == MatchEmpty(s) \/ MatchOther(s) \/ ReadOk(s) \/ ReadErr(s)

FairSpec == Spec /\ \A s \in Sessions : WF_vars(Advance(s))

\* ------------------------------------------------------------ properties

Terminal(s) == status[s] \in {"Empty", "Failed"}

CeilHalf(n) == (n + 1) \div 2

FloorHalf(n) == n \div 2

IsSuffix(x, b) ==
    /\ Len(x) <= Len(b)
    /\ x = SubSeq(b, Len(b) - Len(x) + 1, Len(b))

IsPrefix(x, y) ==
    /\ Len(x) <= Len(y)
    /\ x = SubSeq(y, 1, Len(x))

\* The bytes the yielded records were read from: for each record the length
\* byte that was read, then its type byte, then its payload.
RECURSIVE Flatten(_, _)
Flatten(ls, recs) ==
    IF recs = <<>> THEN <<>>
    ELSE <<Head(ls), Head(recs).data_type>> \o Head(recs).data
         \o Flatten(Tail(ls), Tail(recs))

\* The AD structure encoding of a record sequence: (len(data) + 1,
\* data_type, data) for each record.
RECURSIVE Encode(_)
Encode(recs) ==
    IF recs = <<>> THEN <<>>
    ELSE <<Len(Head(recs).data) + 1, Head(recs).data_type>> \o Head(recs).data
         \o Encode(Tail(recs))

\* b is a concatenation of records (L, T, payload) with L = len(payload) + 1.
RECURSIVE WellFormed(_)
WellFormed(b) ==
    \/ b = <<>>
    \/ /\ Len(b) >= 2
       /\ b[1] >= 1
       /\ Len(b) >= b[1] + 1
       /\ WellFormed(SubSeq(b, b[1] + 2, Len(b)))

\* The (T, payload) sequence a well-formed buffer was built from.
RECURSIVE Framed(_)
Framed(b) ==
    IF b = <<>> THEN <<>>
    ELSE <<AdStruct(b[2], SubSeq(b, 3, b[1] + 1))>>
         \o Framed(SubSeq(b, b[1] + 2, Len(b)))

\* C1: a buffer that is a concatenation of well-formed records decodes,
\* without error, to exactly those records in order, and re-encoding the
\* decoded records gives back the buffer.
C1_WellFormedRoundTrip ==
    \A s \in Sessions :
        (Terminal(s) /\ WellFormed(buffer)) =>
            /\ status[s] = "Empty"
            /\ error[s] = NoError
            /\ yielded[s] = Framed(buffer)
            /\ Encode(yielded[s]) = buffer

\* C2: every yielded record's payload has length L - 1 for the length byte L
\* that framed it; a successful parse_next on b returns data_type = b[1],
\* data = b[2 .. 2+(L-1)] and remainder = b[2+(L-1) ..] (0-based).
\* (Stated for L >= 1; a length byte of 0 is the case of C4.)
C2_PayloadIsLMinusOne ==
    \A s \in Sessions :
        /\ \A i \in 1 .. Len(yielded[s]) :
               lens[s][i] >= 1 => Len(yielded[s][i].data) = lens[s][i] - 1
        /\ (reads[s] > 0 /\ res[s].tag = "Ok" /\ arg[s][1] >= 1) =>
               /\ res[s].value[1] =
                      AdStruct(arg[s][2], SubSeq(arg[s], 3, arg[s][1] + 1))
               /\ res[s].value[2] = SubSeq(arg[s], arg[s][1] + 2, Len(arg[s]))

\* C3: a read whose length byte promises more payload than the buffer holds
\* fails and yields no record for that segment.
C3_TruncatedPayloadFails ==
    \A s \in Sessions :
        (/\ reads[s] > 0
         /\ Len(arg[s]) >= 2
         /\ Len(arg[s]) - 2 < arg[s][1] - 1) =>
            /\ res[s].tag = "Err"
            /\ status[s] = "Failed"
            /\ Len(yielded[s]) = reads[s] - 1

\* C4: a read of a record whose length byte is 0 fails instead of producing
\* a record, and the session ends in failure.
C4_ZeroLengthFails ==
    \A s \in Sessions :
        (/\ reads[s] > 0
         /\ Len(arg[s]) >= 2
         /\ arg[s][1] = 0) =>
            /\ res[s].tag = "Err"
            /\ status[s] = "Failed"
            /\ Len(yielded[s]) = reads[s] - 1

C6_Lossless ==
    \A s \in Sessions :
        /\ Len(lens[s]) = Len(yielded[s])
        /\ Flatten(lens[s], yielded[s]) \o cur[s] = buffer
        /\ Flatten(lens[s], yielded[s]) =
               SubSeq(buffer, 1, Len(buffer) - Len(cur[s]))
        /\ reads[s] > 0 => IsSuffix(arg[s], buffer)

C6_Witness ==
    \E s \in Sessions :
        /\ Len(yielded[s]) >= 1
        /\ yielded[s][1].data # <<>>
        /\ cur[s] # <<>>
        /\ cur[s] # buffer

\* C7: once the reader has failed the session is Failed for good: the error
\* has reached the consumer, the failing segment gave no record, no record
\* is yielded afterwards, and the records before the failing segment were
\* all yielded, in order, before the error.
C7_FailureIsTerminal ==
    [][\A s \in Sessions :
          /\ status[s] = "Failed" =>
                 /\ status'[s] = "Failed"
                 /\ yielded'[s] = yielded[s]
                 /\ error'[s] = error[s]
                 /\ reads'[s] = reads[s]
          /\ (reads'[s] > 0 /\ res'[s].tag # "Ok") => status'[s] = "Failed"
          /\ status'[s] = "Failed" =>
                 /\ res'[s].tag = "Err"
                 /\ error'[s] = UnwrapError(res'[s].value)
                 /\ yielded'[s] = yielded[s]
                 /\ Len(yielded'[s]) = reads'[s] - 1
                 /\ cur'[s] = arg'[s]
                 /\ Flatten(lens'[s], yielded'[s]) \o arg'[s] = buffer
      ]_vars

C7_Witness ==
    \E s \in Sessions :
        /\ status[s] = "Failed"
        /\ extra[s] >= 1
        /\ Len(yielded[s]) >= 1
        /\ error[s] # NoError

\* The transitions of the driver's state machine; leaving Yielding runs the
\* match of the next frame, which ends the sequence when the remainder is
\* empty.
Transitions ==
    { <<"Start", "Empty">>, <<"Start", "Reading">>,
      <<"Reading", "Yielding">>, <<"Reading", "Failed">>,
      <<"Yielding", "Reading">>, <<"Yielding", "Empty">> }

C10_Terminates ==
    /\ <>(\A s \in Sessions : Terminal(s))
    /\ [](\A s \in Sessions :
             /\ reads[s] <= CeilHalf(Len(buffer))
             /\ Len(yielded[s]) <= FloorHalf(Len(buffer))
             /\ (reads[s] > 0 /\ res[s].tag = "Ok") =>
                    /\ IsSuffix(res[s].value[2], arg[s])
                    /\ Len(res[s].value[2]) <= Len(arg[s]) - 2)
    /\ [][\A s \in Sessions :
             /\ IsSuffix(cur'[s], cur[s])
             /\ reads'[s] # reads[s] =>
                    \/ status'[s] = "Failed" /\ cur'[s] = cur[s]
                    \/ status'[s] = "Yielding" /\ Len(cur'[s]) <= Len(cur[s]) - 2
             /\ reads'[s] = reads[s] => cur'[s] = cur[s]
         ]_vars

C10_Witness ==
    \E s \in Sessions :
        /\ Terminal(s)
        /\ Len(buffer) >= 3
        /\ reads[s] = CeilHalf(Len(buffer))
        /\ Len(yielded[s]) = FloorHalf(Len(buffer))
        /\ Len(buffer) % 2 = 1

====
